---- MODULE Spec2Model ----
(***************************************************************************)
(* Model of src/lambda_function.py: lambda_handler, a read-through daily   *)
(* cache in front of the Hack The Box API, and get_rankings_from_htb, the  *)
(* fetcher it calls on a cache miss.                                       *)
(*                                                                         *)
(* Python dicts are functions from key strings to values.  All scalar      *)
(* values are strings (the code only passes them through); Python's None   *)
(* is the string "None".  An optional dict (a local that is unbound, None  *)
(* or a dict) is a tagged record.                                          *)
(***************************************************************************)
EXTENDS Naturals, Sequences, FiniteSets, TLC

\* ------------------------------------------------------------------ bounds
MaxProcs == 2
MaxDay == 2
MaxList == 2
MaxFetcherCalls == 2

Procs == 1..MaxProcs

\* ------------------------------------------------------- values and dicts
None == "None"

EmptyDict == [k \in {} |-> None]

\* dict.get(k) with the default None
Get(d, k) == IF k \in DOMAIN d THEN d[k] ELSE None

\* dict.pop(k, None), as the dict that is left
Pop(d, k) == [x \in DOMAIN d \ {k} |-> d[x]]

\* a.update(b), as the resulting dict: b's entries win
Update(a, b) == b @@ a

Unbound == [tag |-> "unbound"]
PyNone == [tag |-> "None"]
Some(d) == [tag |-> "dict", dict |-> d]

Last(s) == s[Len(s)]

Count(s, S) == Cardinality({k \in DOMAIN s : s[k] \in S})

BoundedSeq(S, n) == UNION {[1..k -> S] : k \in 0..n}

\* date.today().isoformat() for the day-th day of the modelled month
isoformat(day) == "2025-07-" \o (IF day < 10 THEN "0" ELSE "") \o ToString(day)

\* ------------------------------------------------------------ environment
TableNames == {None, "", "htb_rankings"}
UserIds == {None, "1337"}
Tokens == {None, "tok"}

\* the error mappings of lambda_handler
ErrConfig == ("error" :> "TABLE_NAME not configured")
ErrLookup == ("error" :> "Database lookup failed")
ErrRankings == ("error" :> "Could not retrieve rankings")

\* ---------------------------------------------------- upstream responses
FullProfile ==
    ("name" :> "alice") @@ ("country_code" :> "GB") @@
    ("system_owns" :> "5") @@ ("user_owns" :> "7") @@
    ("system_bloods" :> "0") @@ ("user_bloods" :> "1") @@
    ("rank" :> "Hacker") @@ ("ranking" :> "321")

ProfileKeySets ==
    { DOMAIN FullProfile,
      DOMAIN FullProfile \ {"name"},
      DOMAIN FullProfile \ {"country_code"},
      DOMAIN FullProfile \ {"name", "country_code"},
      DOMAIN FullProfile \ {"system_owns"},
      {} }

Profiles == { [k \in K |-> FullProfile[k]] : K \in ProfileKeySets }

\* JSON bodies of the profile endpoint: with or without the "profile" key
ProfileBodies == { ("profile" :> p) : p \in Profiles } \cup { EmptyDict }

ProfileResponses ==
    { [status_code |-> 200, json |-> b] : b \in ProfileBodies } \cup
    { [status_code |-> 403, json |-> b] : b \in {("profile" :> FullProfile), EmptyDict} }

RankingEntries ==
    { ("name" :> n) @@ ("rank" :> r) : n \in {"alice", "bob"}, r \in {"1", "2"} }

RankingLists == BoundedSeq(RankingEntries, MaxList)

\* JSON bodies of the country endpoint: no "data", "data" without
\* "rankings", or "data" with a ranking list
RankingBodies ==
    { EmptyDict, ("data" :> EmptyDict) } \cup
    { ("data" :> ("rankings" :> l)) : l \in RankingLists }

\* a non-200 answer may still carry a body; the code must not look at it
RankingResponses ==
    { [status_code |-> 200, json |-> b] : b \in RankingBodies } \cup
    { [status_code |-> 500, json |-> b] :
        b \in {EmptyDict, ("data" :> ("rankings" :> <<("name" :> "alice") @@ ("rank" :> "1")>>))} }

NoResponse == [status_code |-> 0, json |-> EmptyDict]

DateStrs == { isoformat(d) : d \in 1..MaxDay }

\* ------------------------------------------------------------------ state
VARIABLES
    environ,          \* os.environ: TABLE_NAME, USER_ID, TOKEN
    clock,            \* the day date.today() reports
    store,            \* the DynamoDB table: a set of items
    pc,               \* where each invocation stands
    today_str,        \* lambda_handler locals, per invocation
    resp,
    item,
    data,
    result,           \* the mapping the invocation returned
    USER_DATA,        \* get_rankings_from_htb locals, per invocation
    LOCAL_RANKINGS,
    USERNAME,
    User_Info,
    calls,            \* the calls the invocation has made, in order
    fetcherCalls,     \* per date: invocations that called the fetcher
    fetchFailedOn,    \* dates on which the fetcher has returned None
    placeholderOn,    \* dates whose date-only placeholder was written
    priorFail,        \* per invocation: today was in fetchFailedOn at entry
    priorPlaceholder  \* per invocation: today was in placeholderOn at entry

handlerVars == <<today_str, resp, item, data, result>>
fetcherVars == <<USER_DATA, LOCAL_RANKINGS, USERNAME, User_Info>>
historyVars == <<fetcherCalls, fetchFailedOn, placeholderOn, priorFail, priorPlaceholder>>
vars == <<environ, clock, store, pc, handlerVars, fetcherVars, calls, historyVars>>

Finished == {"idle", "returned", "raised"}

Init ==
    /\ environ \in [TABLE_NAME : TableNames, USER_ID : UserIds, TOKEN : Tokens]
    /\ clock = 1
    /\ store = {}
    /\ pc = [i \in Procs |-> "idle"]
    /\ today_str = [i \in Procs |-> None]
    /\ resp = [i \in Procs |-> Unbound]
    /\ item = [i \in Procs |-> Unbound]
    /\ data = [i \in Procs |-> Unbound]
    /\ result = [i \in Procs |-> EmptyDict]
    /\ USER_DATA = [i \in Procs |-> NoResponse]
    /\ LOCAL_RANKINGS = [i \in Procs |-> NoResponse]
    /\ USERNAME = [i \in Procs |-> None]
    /\ User_Info = [i \in Procs |-> EmptyDict]
    /\ calls = [i \in Procs |-> <<>>]
    /\ fetcherCalls = [d \in DateStrs |-> 0]
    /\ fetchFailedOn = {}
    /\ placeholderOn = {}
    /\ priorFail = [i \in Procs |-> FALSE]
    /\ priorPlaceholder = [i \in Procs |-> FALSE]

\* ------------------------------------------------------------ the store
\* looks the key up nowhere: every lookup is a miss
get_item_miss(s, key) == EmptyDict

\* ignores the key: answers with whatever record the table holds
get_item_any(s, key) ==
    IF s # {} THEN ("Item" :> CHOOSE r \in s : TRUE) ELSE EmptyDict

\* table.get_item(Key={"date": key}): {"Item": item} or no "Item" key
get_item(s, key) ==
    IF \E r \in s : r["date"] = key
    THEN ("Item" :> CHOOSE r \in s : r["date"] = key)
    ELSE EmptyDict

\* table.put_item(Item=it): replaces the item with the same partition key
put_item(s, it) == { r \in s : r["date"] # it["date"] } \cup {it}

\* --------------------------------------------------------- lambda_handler
\* tests `table_name is None` only
TableMissing_noneOnly(table_name) == table_name = None

\* `if not table_name`: None and the empty string are both falsy
TableMissing(table_name) == table_name \in {None, ""}

\* never takes the hit branch
CacheHit_never(r) == FALSE

\* treats a date-only placeholder as a miss and fetches again
CacheHit_retry(r) == "Item" \in DOMAIN r /\ DOMAIN r["Item"] # {"date"}

\* `if "Item" in resp`
CacheHit(r) == "Item" \in DOMAIN r

\* returns the stored item with its key
HitResult_keepDate(it) == it

\* item.pop("date", None); return item
HitResult(it) == Pop(it, "date")

\* item = {"date": today_str}
NewItem(today) == ("date" :> today)

\* forgets the merge
FreshItem_noMerge(it, d) == it

\* item.update(data)
FreshItem(it, d) == Update(it, d)

\* reports the failed write instead of the data
OnWriteError_error(d) == ("error" :> "Database write failed")

\* the except branch of the write of fresh data: log, then return data
OnWriteError(d) == d

Bump(n) == IF n < MaxFetcherCalls THEN n + 1 ELSE n

\* lines 15-33: today's key, then the TABLE_NAME check
Invoke(i) ==
    /\ pc[i] \in Finished
    /\ today_str' = [today_str EXCEPT ![i] = isoformat(clock)]
    /\ resp' = [resp EXCEPT ![i] = Unbound]
    /\ item' = [item EXCEPT ![i] = Unbound]
    /\ data' = [data EXCEPT ![i] = Unbound]
    /\ calls' = [calls EXCEPT ![i] = <<>>]
    /\ priorFail' = [priorFail EXCEPT ![i] = isoformat(clock) \in fetchFailedOn]
    /\ priorPlaceholder' = [priorPlaceholder EXCEPT ![i] = isoformat(clock) \in placeholderOn]
    /\ IF TableMissing(environ.TABLE_NAME)
       THEN /\ pc' = [pc EXCEPT ![i] = "returned"]
            /\ result' = [result EXCEPT ![i] = ErrConfig]
       ELSE /\ pc' = [pc EXCEPT ![i] = "get_item"]
            /\ result' = [result EXCEPT ![i] = EmptyDict]
    /\ UNCHANGED <<environ, clock, store, fetcherVars, fetcherCalls, fetchFailedOn, placeholderOn>>

\* invocations executed one after another: each runs to its end before the
\* next starts, in the one execution environment the host keeps warm
InvokeSeq(i) ==
    /\ i = 1
    /\ Invoke(i)

\* swallows the lookup error and carries on as on a miss
LookupRaises_asMiss(i) ==
    /\ pc[i] = "get_item"
    /\ calls' = [calls EXCEPT ![i] = Append(@, "get_item!")]
    /\ item' = [item EXCEPT ![i] = Some(("date" :> today_str[i]))]
    /\ pc' = [pc EXCEPT ![i] = "fetcher"]
    /\ UNCHANGED <<environ, clock, store, today_str, resp, data, result, fetcherVars, historyVars>>

\* lines 36-40: get_item raises
LookupRaises(i) ==
    /\ pc[i] = "get_item"
    /\ calls' = [calls EXCEPT ![i] = Append(@, "get_item!")]
    /\ pc' = [pc EXCEPT ![i] = "returned"]
    /\ result' = [result EXCEPT ![i] = ErrLookup]
    /\ UNCHANGED <<environ, clock, store, today_str, resp, item, data, fetcherVars, historyVars>>

\* lines 36-51: get_item answers; a hit returns, a miss goes on to the fetcher
LookupReturns(i) ==
    /\ pc[i] = "get_item"
    /\ calls' = [calls EXCEPT ![i] = Append(@, "get_item")]
    /\ LET r == get_item(store, today_str[i]) IN
        /\ resp' = [resp EXCEPT ![i] = Some(r)]
        /\ IF CacheHit(r)
           THEN /\ item' = [item EXCEPT ![i] = Some(HitResult(r["Item"]))]
                /\ result' = [result EXCEPT ![i] = HitResult(r["Item"])]
                /\ pc' = [pc EXCEPT ![i] = "returned"]
           ELSE /\ item' = [item EXCEPT ![i] = Some(NewItem(today_str[i]))]
                /\ pc' = [pc EXCEPT ![i] = "fetcher"]
                /\ UNCHANGED result
    /\ UNCHANGED <<environ, clock, store, today_str, data, fetcherVars, historyVars>>

\* lines 53-56: the fetcher returned None; the placeholder write is unguarded
PutPlaceholder(i) ==
    /\ pc[i] = "put"
    /\ data[i] = PyNone
    /\ \/ /\ store' = put_item(store, item[i].dict)
          /\ calls' = [calls EXCEPT ![i] = Append(@, "put_item")]
          /\ placeholderOn' = placeholderOn \cup {today_str[i]}
          /\ pc' = [pc EXCEPT ![i] = "returned"]
          /\ result' = [result EXCEPT ![i] = ErrRankings]
       \/ /\ calls' = [calls EXCEPT ![i] = Append(@, "put_item!")]
          /\ pc' = [pc EXCEPT ![i] = "raised"]
          /\ UNCHANGED <<store, placeholderOn, result>>
    /\ UNCHANGED <<environ, clock, today_str, resp, item, data, fetcherVars,
                   fetcherCalls, fetchFailedOn, priorFail, priorPlaceholder>>

\* lines 58-68: merge, write (best effort), return the fetched data
PutFresh(i) ==
    /\ pc[i] = "put"
    /\ data[i] # PyNone
    /\ LET it == FreshItem(item[i].dict, data[i].dict) IN
        /\ item' = [item EXCEPT ![i] = Some(it)]
        /\ \/ /\ store' = put_item(store, it)
              /\ calls' = [calls EXCEPT ![i] = Append(@, "put_item")]
              /\ result' = [result EXCEPT ![i] = data[i].dict]
           \/ /\ calls' = [calls EXCEPT ![i] = Append(@, "put_item!")]
              /\ result' = [result EXCEPT ![i] = OnWriteError(data[i].dict)]
              /\ UNCHANGED store
    /\ pc' = [pc EXCEPT ![i] = "returned"]
    /\ UNCHANGED <<environ, clock, today_str, resp, data, fetcherVars, historyVars>>

\* -------------------------------------------------- get_rankings_from_htb
\* `if APP_TOKEN is None or USER_ID is None`
CredentialsMissing(env) == env.TOKEN = None \/ env.USER_ID = None

\* `if USER_DATA.status_code == 200`
ProfileOk(r) == r.status_code = 200

\* reads the body whatever the status
RankingsOk_always(r) == TRUE

\* `if LOCAL_RANKINGS.status_code == 200`
RankingsOk(r) == r.status_code = 200

\* USER_DATA.json().get("profile", {})
ProfileOf(r) == IF "profile" \in DOMAIN r.json THEN r.json["profile"] ELSE EmptyDict

\* LOCAL_RANKINGS.json().get("data", {}).get("rankings", [])
RankingsOf(r) ==
    LET d == IF "data" \in DOMAIN r.json THEN r.json["data"] ELSE EmptyDict
    IN  IF "rankings" \in DOMAIN d THEN d["rankings"] ELSE <<>>

\* lines 114-119: the six metrics, None where the profile lacks the field
ProfileMetrics(profile) ==
    ("System_Owns" :> Get(profile, "system_owns")) @@
    ("User_Owns" :> Get(profile, "user_owns")) @@
    ("System_Bloods" :> Get(profile, "system_bloods")) @@
    ("User_Bloods" :> Get(profile, "user_bloods")) @@
    ("Rank" :> Get(profile, "rank")) @@
    ("User_Global_Rank" :> Get(profile, "ranking"))

\* aborts only when both are missing
Incomplete_both(name, country) == name = None /\ country = None

\* `if USERNAME is None or COUNTRYCODE is None`
Incomplete(name, country) == name = None \/ country = None

\* the loop without its break: the last match wins
RECURSIVE Scan_last(_, _, _, _)
Scan_last(info, rankings, k, name) ==
    IF k > Len(rankings) THEN info
    ELSE IF Get(rankings[k], "name") = name
         THEN Scan_last(Update(info, ("Local_Rank" :> Get(rankings[k], "rank"))),
                        rankings, k + 1, name)
         ELSE Scan_last(info, rankings, k + 1, name)

\* lines 130-133: the loop over the rankings from entry k on, with its break
RECURSIVE Scan(_, _, _, _)
Scan(info, rankings, k, name) ==
    IF k > Len(rankings) THEN info
    ELSE IF Get(rankings[k], "name") = name
         THEN Update(info, ("Local_Rank" :> Get(rankings[k], "rank")))
         ELSE Scan(info, rankings, k + 1, name)

\* lines 129-135: what the fetcher returns once the country answer is in
Assemble(info, r, name) ==
    IF RankingsOk(r) THEN Scan(info, RankingsOf(r), 1, name) ELSE info

ClearFetcher(i) ==
    /\ USER_DATA' = [USER_DATA EXCEPT ![i] = NoResponse]
    /\ LOCAL_RANKINGS' = [LOCAL_RANKINGS EXCEPT ![i] = NoResponse]
    /\ USERNAME' = [USERNAME EXCEPT ![i] = None]
    /\ User_Info' = [User_Info EXCEPT ![i] = EmptyDict]

\* line 52 and lines 80-106: the call, the credentials check, the profile request
FetcherStart(i) ==
    /\ pc[i] = "fetcher"
    /\ fetcherCalls' = [fetcherCalls EXCEPT ![today_str[i]] = Bump(@)]
    /\ IF CredentialsMissing(environ)
       THEN /\ data' = [data EXCEPT ![i] = PyNone]
            /\ fetchFailedOn' = fetchFailedOn \cup {today_str[i]}
            /\ calls' = [calls EXCEPT ![i] = Append(@, "get_rankings_from_htb")]
            /\ pc' = [pc EXCEPT ![i] = "put"]
            /\ UNCHANGED USER_DATA
       ELSE /\ \/ \E r \in ProfileResponses :
                    /\ USER_DATA' = [USER_DATA EXCEPT ![i] = r]
                    /\ calls' = [calls EXCEPT ![i] = @ \o <<"get_rankings_from_htb", "GET profile">>]
                    /\ pc' = [pc EXCEPT ![i] = "profile"]
               \/ /\ calls' = [calls EXCEPT ![i] = @ \o <<"get_rankings_from_htb", "GET profile!">>]
                  /\ pc' = [pc EXCEPT ![i] = "raised"]
                  /\ UNCHANGED USER_DATA
            /\ UNCHANGED <<data, fetchFailedOn>>
    /\ UNCHANGED <<environ, clock, store, today_str, resp, item, result,
                   LOCAL_RANKINGS, USERNAME, User_Info,
                   placeholderOn, priorFail, priorPlaceholder>>

\* lines 107-128: read the profile, abort if incomplete, else the country request
FetcherProfile(i) ==
    /\ pc[i] = "profile"
    /\ LET ok == ProfileOk(USER_DATA[i])
           profile == ProfileOf(USER_DATA[i])
           name == IF ok THEN Get(profile, "name") ELSE None
           country == IF ok THEN Get(profile, "country_code") ELSE None
           info == IF ok THEN ProfileMetrics(profile) ELSE EmptyDict
       IN  IF Incomplete(name, country)
           THEN /\ data' = [data EXCEPT ![i] = PyNone]
                /\ fetchFailedOn' = fetchFailedOn \cup {today_str[i]}
                /\ pc' = [pc EXCEPT ![i] = "put"]
                /\ ClearFetcher(i)
                /\ UNCHANGED calls
           ELSE /\ \/ \E r \in RankingResponses :
                        /\ LOCAL_RANKINGS' = [LOCAL_RANKINGS EXCEPT ![i] = r]
                        /\ USERNAME' = [USERNAME EXCEPT ![i] = name]
                        /\ User_Info' = [User_Info EXCEPT ![i] = info]
                        /\ calls' = [calls EXCEPT ![i] = Append(@, "GET rankings")]
                        /\ pc' = [pc EXCEPT ![i] = "rankings"]
                        /\ UNCHANGED USER_DATA
                   \/ /\ calls' = [calls EXCEPT ![i] = Append(@, "GET rankings!")]
                      /\ pc' = [pc EXCEPT ![i] = "raised"]
                      /\ ClearFetcher(i)
                /\ UNCHANGED <<data, fetchFailedOn>>
    /\ UNCHANGED <<environ, clock, store, today_str, resp, item, result,
                   fetcherCalls, placeholderOn, priorFail, priorPlaceholder>>

\* lines 129-135: scan the country rankings and return User_Info
FetcherRankings(i) ==
    /\ pc[i] = "rankings"
    /\ data' = [data EXCEPT ![i] = Some(Assemble(User_Info[i], LOCAL_RANKINGS[i], USERNAME[i]))]
    /\ pc' = [pc EXCEPT ![i] = "put"]
    /\ ClearFetcher(i)
    /\ UNCHANGED <<environ, clock, store, today_str, resp, item, result, calls, historyVars>>

\* midnight passes
Tick ==
    /\ clock < MaxDay
    /\ clock' = clock + 1
    /\ UNCHANGED <<environ, store, pc, handlerVars, fetcherVars, calls, historyVars>>

Next ==
    \/ \E i \in Procs : InvokeSeq(i)
    \/ \E i \in Procs : LookupRaises(i)
    \/ \E i \in Procs : LookupReturns(i)
    \/ \E i \in Procs : FetcherStart(i)
    \/ \E i \in Procs : FetcherProfile(i)
    \/ \E i \in Procs : FetcherRankings(i)
    \/ \E i \in Procs : PutPlaceholder(i)
    \/ \E i \in Procs : PutFresh(i)
    \/ Tick

\* invocations one after another
Spec == Init /\ [][Next]_vars

NextConc ==
    \/ \E i \in Procs : Invoke(i)
    \/ \E i \in Procs : LookupRaises(i)
    \/ \E i \in Procs : LookupReturns(i)
    \/ \E i \in Procs : FetcherStart(i)
    \/ \E i \in Procs : FetcherProfile(i)
    \/ \E i \in Procs : FetcherRankings(i)
    \/ \E i \in Procs : PutPlaceholder(i)
    \/ \E i \in Procs : PutFresh(i)
    \/ Tick

\* invocations interleaved at their store and upstream calls
SpecConc == Init /\ [][NextConc]_vars

\* ================================================================ claims
UpstreamCalls == {"GET profile", "GET profile!", "GET rankings", "GET rankings!"}
FetcherCall == {"get_rankings_from_htb"}
HasRecord(s, d) == \E r \in s : r["date"] = d
Made(i, c) == \E k \in DOMAIN calls[i] : calls[i][k] = c

MetricKeys ==
    {"System_Owns", "User_Owns", "System_Bloods", "User_Bloods", "Rank", "User_Global_Rank"}

\* C1: when the store holds a record {date: D, ...M} and an invocation on D
\* gets an answer from its lookup, that step ends the invocation, which
\* returns exactly M (the record without `date`) and has made no upstream call.
C1_CacheHitPassthrough ==
    [][\A i \in Procs : \A r \in store :
        (/\ pc[i] = "get_item"
         /\ r["date"] = today_str[i]
         /\ calls'[i] = Append(calls[i], "get_item"))
        => (/\ pc'[i] = "returned"
            /\ result'[i] = [k \in DOMAIN r \ {"date"} |-> r[k]]
            /\ Count(calls'[i], UpstreamCalls \cup FetcherCall) = 0)]_vars

\* a hit on a record that carries metrics has been served
C1_Witness ==
    /\ pc[1] = "returned"
    /\ calls[1] = <<"get_item">>
    /\ HasRecord(store, today_str[1])
    /\ MetricKeys \subseteq DOMAIN result[1]

\* C2 as stated: once the fetcher has returned no data on date D, an
\* invocation on D that starts afterwards returns {} and makes no upstream call.
C2_Original ==
    \A i \in Procs :
        (pc[i] = "returned" /\ priorFail[i])
        => (result[i] = EmptyDict /\ Count(calls[i], UpstreamCalls) = 0)

\* C2 amended: once the fetcher has returned no data on date D and the
\* placeholder for D was written, an invocation on D that starts afterwards
\* and whose lookup succeeds returns {} without calling the fetcher or the
\* upstream.
C2_PlaceholderIdempotent ==
    \A i \in Procs :
        (pc[i] = "returned" /\ priorPlaceholder[i] /\ Made(i, "get_item"))
        => (/\ result[i] = EmptyDict
            /\ Count(calls[i], UpstreamCalls \cup FetcherCall) = 0)

\* a second invocation on the day of a written placeholder has returned
C2_Witness ==
    /\ pc[1] = "returned"
    /\ priorPlaceholder[1]
    /\ calls[1] = <<"get_item">>
    /\ result[1] = EmptyDict

C4_Original == \A d \in DateStrs : fetcherCalls[d] <= 1

\* C4 amended: an invocation calls the fetcher only while the store holds no
\* record for its date; once a record for D is stored, invocations on D are
\* served from the store.
C4_FetcherOnlyOnMiss ==
    [][\A i \in Procs :
        (Count(calls'[i], FetcherCall) > Count(calls[i], FetcherCall))
        => ~HasRecord(store, today_str[i])]_vars

\* after one fetch on the day, a later invocation was served from the store
C4_Witness ==
    /\ pc[1] = "returned"
    /\ calls[1] = <<"get_item">>
    /\ fetcherCalls[today_str[1]] = 1

\* C5: with invocations run one after another, no step removes or changes a
\* stored record, and the store never holds two records with the same date.
C5_RecordsImmutable ==
    [][/\ \A r \in store : r \in store'
       /\ \A r1, r2 \in store' : r1["date"] = r2["date"] => r1 = r2]_vars

\* a record is stored and a later invocation on its date has run to its end
C5_Witness ==
    /\ pc[1] = "returned"
    /\ HasRecord(store, today_str[1])
    /\ ~Made(1, "put_item")
    /\ Cardinality(store) = 2

\* C6: an invocation whose fetcher returned no data ends by returning the
\* mapping {"error": "Could not retrieve rankings"}, whether or not its
\* placeholder write succeeds; nothing is raised out of it.
C6_FetchErrorSurfaced ==
    \A i \in Procs :
        (pc[i] \in {"returned", "raised"} /\ data[i] = PyNone)
        => (pc[i] = "returned" /\ result[i] = ErrRankings)

\* C7: when the fetcher returned metrics M and the store write fails, that
\* step ends the invocation, which returns M, and the store holds no record
\* for the invocation's date.
C7_WriteFailureReturnsFresh ==
    [][\A i \in Procs :
        (/\ pc[i] = "put"
         /\ data[i].tag = "dict"
         /\ calls'[i] = Append(calls[i], "put_item!"))
        => (/\ pc'[i] = "returned"
            /\ result'[i] = data[i].dict
            /\ ~HasRecord(store', today_str[i]))]_vars

\* fetched metrics were returned although the write failed
C7_Witness ==
    /\ pc[1] = "returned"
    /\ Made(1, "put_item!")
    /\ data[1].tag = "dict"
    /\ MetricKeys \subseteq DOMAIN result[1]
    /\ ~HasRecord(store, today_str[1])

\* C8: when the lookup fails, that step ends the invocation with the
\* database-lookup error; the failed lookup is the only call it has made
\* (no fetcher call, no upstream call, no write) and the store is unchanged.
C8_LookupFailureAborts ==
    [][\A i \in Procs :
        (pc[i] = "get_item" /\ calls'[i] = Append(calls[i], "get_item!"))
        => (/\ pc'[i] = "returned"
            /\ result'[i] = ("error" :> "Database lookup failed")
            /\ calls'[i] = <<"get_item!">>
            /\ store' = store)]_vars

\* a lookup failed while the store held a record for the day
C8_Witness ==
    /\ pc[1] = "returned"
    /\ calls[1] = <<"get_item!">>
    /\ HasRecord(store, today_str[1])

\* C9: with TABLE_NAME absent or empty, every invocation has returned the
\* configuration error as soon as it has started, having made no call at all.
C9_MissingConfigShortCircuits ==
    \A i \in Procs :
        (pc[i] # "idle" /\ environ.TABLE_NAME \in {None, ""})
        => (/\ pc[i] = "returned"
            /\ result[i] = ("error" :> "TABLE_NAME not configured")
            /\ calls[i] = <<>>
            /\ store = {})

\* an invocation has run with an empty TABLE_NAME
C9_Witness ==
    /\ environ.TABLE_NAME = ""
    /\ pc[1] = "returned"

NamesListed(r) ==
    LET d == IF "data" \in DOMAIN r.json THEN r.json["data"] ELSE EmptyDict
        l == IF "rankings" \in DOMAIN d THEN d["rankings"] ELSE <<>>
    IN  { IF "name" \in DOMAIN l[k] THEN l[k]["name"] ELSE None : k \in DOMAIN l }

C11_DateNeverExposed ==
    \A i \in Procs : pc[i] = "returned" => "date" \notin DOMAIN result[i]

\* fresh metrics were returned while the item written carries the date
C11_Witness ==
    /\ pc[1] = "returned"
    /\ Made(1, "put_item")
    /\ item[1].tag = "dict"
    /\ "date" \in DOMAIN item[1].dict
    /\ MetricKeys \subseteq DOMAIN result[1]

StoreReads == {"get_item", "get_item!"}
StoreWrites == {"put_item", "put_item!"}

\* C12: an invocation makes at most one store read, at most one store write
\* and at most two upstream calls, the profile call before the country call;
\* it has made an upstream call only if its first call was a store read
\* that succeeded and found no record.
C12_SideEffectsBounded ==
    \A i \in Procs :
        /\ Count(calls[i], StoreReads) <= 1
        /\ Count(calls[i], StoreWrites) <= 1
        /\ Count(calls[i], {"GET profile", "GET profile!"}) <= 1
        /\ Count(calls[i], {"GET rankings", "GET rankings!"}) <= 1
        /\ \A k \in DOMAIN calls[i] :
              calls[i][k] \in {"GET rankings", "GET rankings!"}
              => \E j \in 1..(k - 1) : calls[i][j] = "GET profile"
        /\ Count(calls[i], UpstreamCalls) > 0
           => (/\ calls[i][1] = "get_item"
               /\ resp[i].tag = "dict"
               /\ "Item" \notin DOMAIN resp[i].dict)

\* an invocation has made its read, both upstream calls and its write
C12_Witness ==
    calls[1] = <<"get_item", "get_rankings_from_htb", "GET profile", "GET rankings", "put_item">>

FieldOf(r, k) ==
    LET p == IF "profile" \in DOMAIN r.json THEN r.json["profile"] ELSE EmptyDict
    IN  IF k \in DOMAIN p THEN p[k] ELSE None

\* C13: when the profile answer is non-200, or its profile lacks the name
\* or lacks the country code, the fetcher returns None at that step and no
\* country-rankings call is made.
C13_AbortOnIncompleteProfile ==
    [][\A i \in Procs :
        (/\ pc[i] = "profile"
         /\ pc'[i] # "profile"
         /\ \/ USER_DATA[i].status_code # 200
            \/ FieldOf(USER_DATA[i], "name") = None
            \/ FieldOf(USER_DATA[i], "country_code") = None)
        => (/\ pc'[i] = "put"
            /\ data'[i] = PyNone
            /\ calls'[i] = calls[i])]_vars

\* the fetcher has returned None after its profile call, without a country call
C13_Witness ==
    /\ pc[1] = "put"
    /\ data[1] = PyNone
    /\ calls[1] = <<"get_item", "get_rankings_from_htb", "GET profile">>

ListOf(r) ==
    LET d == IF "data" \in DOMAIN r.json THEN r.json["data"] ELSE EmptyDict
    IN  IF "rankings" \in DOMAIN d THEN d["rankings"] ELSE <<>>

\* C14: when the country answer is 200, the fetcher's result has Local_Rank
\* exactly if some entry of the list has the username, and then it is the
\* rank of the first such entry in list order.
C14_FirstMatchWins ==
    [][\A i \in Procs :
        (/\ pc[i] = "rankings"
         /\ pc'[i] # "rankings"
         /\ LOCAL_RANKINGS[i].status_code = 200)
        => LET l == ListOf(LOCAL_RANKINGS[i])
               hits == { k \in DOMAIN l : "name" \in DOMAIN l[k] /\ l[k]["name"] = USERNAME[i] }
           IN  /\ data'[i].tag = "dict"
               /\ ("Local_Rank" \in DOMAIN data'[i].dict) <=> (hits # {})
               /\ hits # {} =>
                    \E k \in hits :
                        /\ \A j \in hits : k <= j
                        /\ data'[i].dict["Local_Rank"] = l[k]["rank"]]_vars

\* the fetcher has returned a local rank taken from the country list
C14_Witness ==
    /\ pc[1] = "put"
    /\ data[1].tag = "dict"
    /\ "Local_Rank" \in DOMAIN data[1].dict
    /\ data[1].dict["Local_Rank"] = "2"

\* C15: with TOKEN or USER_ID absent, an invocation that missed the cache
\* and has ended made no upstream call, attempted the placeholder write and
\* returned {"error": "Could not retrieve rankings"}; if the write went
\* through, the store holds the date-only placeholder.
C15_MissingCredentials ==
    \A i \in Procs :
        (/\ environ.TOKEN = None \/ environ.USER_ID = None
         /\ pc[i] \in {"returned", "raised"}
         /\ Made(i, "get_rankings_from_htb"))
        => (/\ Count(calls[i], UpstreamCalls) = 0
            /\ Count(calls[i], StoreWrites) = 1
            /\ Made(i, "put_item") => ("date" :> today_str[i]) \in store
            /\ pc[i] = "returned"
            /\ result[i] = ("error" :> "Could not retrieve rankings"))

\* C17: a step of an invocation whose today is D' leaves every record of
\* another date as it is, and a lookup on D' that is answered while the
\* store holds no record for D' goes on to the fetcher, whatever the store
\* holds for other dates.
C17_DaysIndependent ==
    [][\A i \in Procs :
        /\ pc'[i] # pc[i]
           => \A r \in store \cup store' :
                 r["date"] # today_str'[i] => (r \in store /\ r \in store')
        /\ (/\ pc[i] = "get_item"
            /\ calls'[i] = Append(calls[i], "get_item")
            /\ ~HasRecord(store, today_str[i]))
           => (/\ pc'[i] = "fetcher"
               /\ "Item" \notin DOMAIN resp'[i].dict)]_vars

\* an invocation on the second day has called the fetcher and ended while
\* the store keeps a record of the first day
C17_Witness ==
    /\ pc[1] = "returned"
    /\ today_str[1] = isoformat(2)
    /\ Made(1, "get_rankings_from_htb")
    /\ \E r \in store : r["date"] = isoformat(1) /\ MetricKeys \subseteq DOMAIN r

\* C16 as stated: with invocations interleaved, a stored record that
\* carries metrics stays in the store at every step.
C16_Original ==
    [][\A r \in store : DOMAIN r # {"date"} => r \in store']_vars

\* C16 amended: with invocations interleaved the last write wins.  A stored
\* record leaves the store only by being replaced, in the write step of an
\* invocation on the same date whose own lookup had found no record; no
\* record is deleted and no date ever has two records.
C16_LastWriteWins ==
    [][/\ \A r \in store :
            r \notin store'
            => /\ HasRecord(store', r["date"])
               /\ \E i \in Procs :
                    /\ pc[i] = "put"
                    /\ pc'[i] = "returned"
                    /\ calls'[i] = Append(calls[i], "put_item")
                    /\ today_str[i] = r["date"]
                    /\ resp[i].tag = "dict"
                    /\ "Item" \notin DOMAIN resp[i].dict
       /\ \A r1, r2 \in store' : r1["date"] = r2["date"] => r1 = r2]_vars

\* one invocation stored metrics for the day, and the placeholder written by
\* another invocation on that day has replaced them
C16_Witness ==
    \E i, j \in Procs :
        /\ i # j
        /\ pc[i] = "returned" /\ pc[j] = "returned"
        /\ today_str[i] = today_str[j]
        /\ data[i].tag = "dict" /\ Made(i, "put_item")
        /\ data[j] = PyNone /\ Made(j, "put_item")
        /\ ("date" :> today_str[i]) \in store

====
